---- MODULE Spec2Model ----
(***************************************************************************)
(* DocSafe backend (src/server.js, with the earlier revision kept as       *)
(* src/unnamed/part_000): metadata sanitizer, text normalizer, chunked     *)
(* LanguageTool client, report builder and the /clean, /clean-v2 routes.   *)
(*                                                                         *)
(* Strings are sequences of one-character strings.  Each component has its *)
(* own specification (SpecNorm, SpecDocx, SpecLT, SpecReport, SpecReq);    *)
(* the variables of the other components stay at their idle values.        *)
(***************************************************************************)
EXTENDS Integers, Sequences, FiniteSets, TLC

VARIABLES
    \* ---- text normalizer (cleanTextBasic called twice in a row)
    input, once, twice, npc,
    \* ---- DOCX sanitizer (one call of processDOCXBasic)
    docxIn, docxOut, dpc,
    \* ---- report builder (one call of buildReportJSON)
    repIn, repOut, rpc,
    \* ---- requests: req[r] is the state of request r (its position in the
    \* handler and the handler's locals), now is Date.now(), fs is os.tmpdir()
    \* (path -> file), unlinks the fs.unlink calls not yet carried out
    req, now, fs, unlinks,
    \* ---- report rendering: htmlIn is what /clean-v2 hands to the report
    \* builders, reportJSON and reportHTML are the route's locals of that name
    htmlIn, reportJSON, reportHTML, hpc

normVars == <<input, once, twice, npc>>
docxVars == <<docxIn, docxOut, dpc>>
repVars == <<repIn, repOut, rpc>>
reqVars == <<req, now, fs, unlinks>>
htmlVars == <<htmlIn, reportJSON, reportHTML, hpc>>

vars == <<normVars, docxVars, repVars, reqVars, htmlVars>>

(***************************************************************************)
(* Characters                                                              *)
(***************************************************************************)
SP   == " "
TAB  == "\t"
NL   == "\n"
CR   == "\r"
ZWSP == "u200B"
DOT  == "."
\* the class [,;:!?] of src/server.js:70
Punct == {",", ";", ":", "!", "?"}
\* what String.prototype.trim strips, among the characters modelled
JsWhite == {SP, TAB, NL, CR}

\* bounds of the normalizer's inputs
MaxLen == 4
NormAlphabet == {"a", SP, TAB, NL, CR, ",", DOT, ZWSP}

RECURSIVE SeqsUpTo(_, _)
SeqsUpTo(S, n) ==
    IF n = 0 THEN {<<>>}
    ELSE LET shorter == SeqsUpTo(S, n - 1)
         IN  shorter \cup {Append(s, c) : s \in {t \in shorter : Len(t) = n - 1}, c \in S}

Drop(s, k) == SubSeq(s, k + 1, Len(s))

\* number of leading characters of s that are in set W
RECURSIVE LeadIn(_, _)
LeadIn(s, W) ==
    IF s = <<>> \/ Head(s) \notin W THEN 0 ELSE 1 + LeadIn(Tail(s), W)

(***************************************************************************)
(* cleanTextBasic, one operator per .replace() of the chain                *)
(***************************************************************************)
\* .replace(/\u200B/g, "")
StripZeroWidth(s) == SelectSeq(s, LAMBDA c : c # ZWSP)

\* .replace(/[ \t]+/g, " ")
RECURSIVE CollapseHoriz(_)
CollapseHoriz(s) ==
    IF s = <<>> THEN <<>>
    ELSE IF Head(s) \in {SP, TAB}
         THEN <<SP>> \o CollapseHoriz(Drop(s, LeadIn(s, {SP, TAB})))
         ELSE <<Head(s)>> \o CollapseHoriz(Tail(s))

\* .replace(/ *\n */g, "\n"): a match is a (greedy) run of spaces, a newline,
\* a run of spaces; a run of spaces not followed by a newline is kept.
RECURSIVE TrimAroundNewline(_)
TrimAroundNewline(s) ==
    IF s = <<>> THEN <<>>
    ELSE LET k == LeadIn(s, {SP})
         IN  IF k < Len(s) /\ s[k + 1] = NL
             THEN LET rest == Drop(s, k + 1)
                  IN  <<NL>> \o TrimAroundNewline(Drop(rest, LeadIn(rest, {SP})))
             ELSE IF k > 0
                  THEN SubSeq(s, 1, k) \o TrimAroundNewline(Drop(s, k))
                  ELSE <<Head(s)>> \o TrimAroundNewline(Tail(s))

\* the rest of s after one optional space
SkipOneSpace(s) == IF s # <<>> /\ Head(s) = SP THEN Tail(s) ELSE s

\* .replace(/ ?([,;:!?]) ?/g, "$1 ")
RECURSIVE SpaceAfterPunct(_)
SpaceAfterPunct(s) ==
    IF s = <<>> THEN <<>>
    ELSE IF Head(s) = SP /\ Len(s) >= 2 /\ s[2] \in Punct
         THEN <<s[2], SP>> \o SpaceAfterPunct(SkipOneSpace(Drop(s, 2)))
         ELSE IF Head(s) \in Punct
              THEN <<Head(s), SP>> \o SpaceAfterPunct(SkipOneSpace(Tail(s)))
              ELSE <<Head(s)>> \o SpaceAfterPunct(Tail(s))

\* a missing g flag: only the first " ." is rewritten
RECURSIVE NoSpaceBeforeDotFirstOnly(_)
NoSpaceBeforeDotFirstOnly(s) ==
    IF s = <<>> THEN <<>>
    ELSE IF Head(s) = SP /\ Len(s) >= 2 /\ s[2] = DOT
         THEN <<DOT>> \o Drop(s, 2)
         ELSE <<Head(s)>> \o NoSpaceBeforeDotFirstOnly(Tail(s))

\* .replace(/ \./g, ".")
RECURSIVE NoSpaceBeforeDot(_)
NoSpaceBeforeDot(s) ==
    IF s = <<>> THEN <<>>
    ELSE IF Head(s) = SP /\ Len(s) >= 2 /\ s[2] = DOT
         THEN <<DOT>> \o NoSpaceBeforeDot(Drop(s, 2))
         ELSE <<Head(s)>> \o NoSpaceBeforeDot(Tail(s))

\* .replace(/[ ]{2,}/g, " ")
RECURSIVE CollapseSpaces(_)
CollapseSpaces(s) ==
    IF s = <<>> THEN <<>>
    ELSE LET k == LeadIn(s, {SP})
         IN  IF k >= 2 THEN <<SP>> \o CollapseSpaces(Drop(s, k))
             ELSE <<Head(s)>> \o CollapseSpaces(Tail(s))

RECURSIVE TrimEnd(_)
TrimEnd(s) ==
    IF s = <<>> \/ s[Len(s)] \notin JsWhite THEN s
    ELSE TrimEnd(SubSeq(s, 1, Len(s) - 1))

\* String.prototype.trim
Trim(s) == TrimEnd(Drop(s, LeadIn(s, JsWhite)))

\* if (!str) return str; otherwise the chain of replaces and the trim
cleanTextBasic(str) ==
    IF str = <<>> THEN str
    ELSE Trim(CollapseSpaces(NoSpaceBeforeDot(SpaceAfterPunct(
            TrimAroundNewline(CollapseHoriz(StripZeroWidth(str)))))))

\* "Hello  world ,test" and "Hello world, test"
ScenarioD ==
    <<"H","e","l","l","o"," "," ","w","o","r","l","d"," ",",","t","e","s","t">>
ScenarioDOut ==
    <<"H","e","l","l","o"," ","w","o","r","l","d",","," ","t","e","s","t">>

NormInputs == SeqsUpTo(NormAlphabet, MaxLen) \cup {ScenarioD}

(***************************************************************************)
(* SpecNorm: the normalizer applied to a text, then to its own result      *)
(***************************************************************************)
NormalizeOnce ==
    /\ npc = "start"
    /\ once' = cleanTextBasic(input)
    /\ npc' = "once"
    /\ UNCHANGED <<input, twice, docxVars, repVars, reqVars, htmlVars>>

NormalizeTwice ==
    /\ npc = "once"
    /\ twice' = cleanTextBasic(once)
    /\ npc' = "twice"
    /\ UNCHANGED <<input, once, docxVars, repVars, reqVars, htmlVars>>

NormNext == NormalizeOnce \/ NormalizeTwice

\* C7: the normalizer is idempotent, normalize(normalize(s)) = normalize(s) for
\* every input s, and "Hello  world ,test" normalizes to "Hello world, test".
C7_Idempotent ==
    /\ npc = "twice" => twice = once
    /\ (npc # "start" /\ input = ScenarioD) => once = ScenarioDOut

\* a text that the first pass changed in its middle and at its end has been
\* normalized twice
C7_Witness ==
    /\ npc = "twice"
    /\ input = <<",", SP, DOT, SP>>
    /\ once = <<",", DOT>>
    /\ twice = once

(***************************************************************************)
(* processDOCXBasic.  The archive is the set of its entries that matter:   *)
(* docProps/core.xml as the sequence of its elements, each with the        *)
(* lexical form of its start tag ("literal" is exactly <dc:creator>,       *)
(* "variant" is the same element written another way XML allows: white     *)
(* space before the >, an attribute, another namespace prefix) and its     *)
(* text; docProps/custom.xml; word/document.xml as the sequence of its     *)
(* <w:t> runs.                                                             *)
(***************************************************************************)
\* the five elements the sanitizer rewrites, in the order of its replaces
BlankedTags == <<"dc:creator", "cp:lastModifiedBy", "dc:title", "dc:subject", "cp:keywords">>
CoreTags == {BlankedTags[i] : i \in 1..Len(BlankedTags)} \cup {"dcterms:created"}
TagForms == {"literal", "variant"}
MetaTexts == {"", "Jane"}
CoreElements == [tag : CoreTags, form : TagForms, text : MetaTexts]

\* bounds of the archives
MaxElems == 2
MaxRuns == 1

\* start tags and contents of the runs of word/document.xml
RunOpenPlain == <<"<", "w", ":", "t", ">">>
RunOpenPreserve ==
    <<"<", "w", ":", "t", " ", "x", "m", "l", ":", "s", "p", "a", "c", "e", "=",
      "q", "p", "r", "e", "s", "e", "r", "v", "e", "q", ">">>
RunClose == <<"<", "/", "w", ":", "t", ">">>
RunInners == {<<>>, <<SP>>, <<"b">>, <<"b", SP, SP, "b">>, <<"b", SP, ",", "b">>}
Runs == [open : {RunOpenPlain, RunOpenPreserve}, inner : RunInners]

\* index of the first element of xml that /<tag>.*?<\/tag>/s matches
\* (0 when none): the first one whose start tag is literally <tag>
FirstPlain(xml, tag) ==
    LET hits == {i \in 1..Len(xml) : xml[i].tag = tag /\ xml[i].form = "literal"}
    IN  IF hits = {} THEN 0 ELSE CHOOSE i \in hits : \A j \in hits : i <= j

\* coreXml.replace(/<tag>.*?<\/tag>/s, "<tag></tag>"): no g flag, so the
\* first match only
BlankFirst(xml, tag) ==
    LET i == FirstPlain(xml, tag)
    IN  IF i = 0 THEN xml ELSE [xml EXCEPT ![i].text = ""]

RECURSIVE BlankAll(_, _)
\* the chain of the five replaces (src/server.js:84-89)
BlankAll(xml, k) ==
    IF k = 0 THEN xml ELSE BlankFirst(BlankAll(xml, k - 1), BlankedTags[k])

\* first index at which pat occurs in m, 0 when it does not
IndexOf(m, pat) ==
    LET hits == {i \in 1..(Len(m) - Len(pat) + 1) : SubSeq(m, i, i + Len(pat) - 1) = pat}
    IN  IF hits = {} THEN 0 ELSE CHOOSE i \in hits : \A j \in hits : i <= j

\* m.replace(pat, rep) with a string pattern: the first occurrence
ReplaceFirst(m, pat, rep) ==
    LET i == IndexOf(m, pat)
    IN  IF i = 0 THEN m
        ELSE SubSeq(m, 1, i - 1) \o rep \o SubSeq(m, i + Len(pat), Len(m))

\* the callback of xml.replace(/<w:t[^>]*>([\s\S]*?)<\/w:t>/g, ...):
\* m.replace(inner, cleanTextBasic(inner)) on the whole matched run
CleanRun(run) ==
    ReplaceFirst(run.open \o run.inner \o RunClose, run.inner, cleanTextBasic(run.inner))

\* zip.remove("docProps/custom.xml") when the entry is there
RemoveCustom(zip) == [zip EXCEPT !.hasCustom = FALSE]

\* the archive processDOCXBasic writes for a readable archive zip
processDOCXBasic(zip) ==
    LET z1 == IF zip.hasCore
              THEN [zip EXCEPT !.core = BlankAll(zip.core, Len(BlankedTags))]
              ELSE zip
        z2 == IF z1.hasCustom THEN RemoveCustom(z1) ELSE z1
    IN  IF z2.hasDoc
        THEN [z2 EXCEPT !.doc = [i \in 1..Len(zip.doc) |-> CleanRun(zip.doc[i])]]
        ELSE z2

\* the archives uploaded: entries present or not, and buffers JSZip cannot load
DocxInputs ==
    [isZip : BOOLEAN, hasCore : BOOLEAN, core : SeqsUpTo(CoreElements, MaxElems),
     hasCustom : BOOLEAN, hasDoc : BOOLEAN, doc : SeqsUpTo(Runs, MaxRuns)]

\* an entry that is absent has no content; a buffer that is no archive has no entry
WellFormedInput(z) ==
    /\ ~z.hasCore => z.core = <<>>
    /\ ~z.hasDoc => z.doc = <<>>
    /\ ~z.isZip => ~z.hasCore /\ ~z.hasCustom /\ ~z.hasDoc

NoArchive ==
    [isZip |-> FALSE, hasCore |-> FALSE, core |-> <<>>, hasCustom |-> FALSE,
     hasDoc |-> FALSE, doc |-> <<>>]

\* JSZip.loadAsync rejects: the call throws, nothing is written
DocxLoadFails ==
    /\ dpc = "start"
    /\ ~docxIn.isZip
    /\ dpc' = "thrown"
    /\ UNCHANGED <<docxIn, docxOut, normVars, repVars, reqVars, htmlVars>>

DocxSanitize ==
    /\ dpc = "start"
    /\ docxIn.isZip
    /\ docxOut' = processDOCXBasic(docxIn)
    /\ dpc' = "returned"
    /\ UNCHANGED <<docxIn, normVars, repVars, reqVars, htmlVars>>

DocxNext == DocxLoadFails \/ DocxSanitize

\* the elements of the output's core-properties entry that are one of the five
MetaElements(z) ==
    {i \in 1..Len(z.core) : \E k \in 1..Len(BlankedTags) : z.core[i].tag = BlankedTags[k]}

\* C1: in the output of processDOCXBasic every creator, lastModifiedBy, title,
\* subject and keywords element of the core-properties entry has empty text and
\* is still there, and the archive has no custom-properties entry.
C1_MetadataRemoved ==
    dpc = "returned" =>
        /\ Len(docxOut.core) = Len(docxIn.core)
        /\ \A i \in MetaElements(docxOut) :
              docxOut.core[i].text = "" /\ docxOut.core[i].tag = docxIn.core[i].tag
        /\ ~docxOut.hasCustom

\* C1 for the archives whose core-properties entry writes each of the five
\* elements at most once, with the start tag exactly <dc:creator>, ...: then
\* every one of them is blanked, and the custom-properties entry is gone.
CanonicalCore(xml) ==
    /\ \A i \in 1..Len(xml) : xml[i].form = "literal"
    /\ \A i, j \in 1..Len(xml) : xml[i].tag = xml[j].tag => i = j

C1_CanonicalRemoved ==
    (dpc = "returned" /\ CanonicalCore(docxIn.core)) =>
        /\ Len(docxOut.core) = Len(docxIn.core)
        /\ \A i \in MetaElements(docxOut) :
              docxOut.core[i].text = "" /\ docxOut.core[i].tag = docxIn.core[i].tag
        /\ ~docxOut.hasCustom

\* Scenario A: <dc:creator>Jane</dc:creator>, no custom-properties entry
C1_ScenarioA ==
    /\ dpc = "returned"
    /\ docxIn.core = <<[tag |-> "dc:creator", form |-> "literal", text |-> "Jane"]>>
    /\ ~docxIn.hasCustom
    /\ docxOut.core = <<[tag |-> "dc:creator", form |-> "literal", text |-> ""]>>
    /\ ~docxOut.hasCustom

(***************************************************************************)
(* buildReportJSON.  summary.byRule is a plain object literal {}: a read   *)
(* of a key it does not own falls through to Object.prototype, and an      *)
(* assignment to __proto__ goes to the prototype's setter.  A value is     *)
(* [t |-> "number", v |-> n], or the string that + 1 makes of a non-number *)
(***************************************************************************)
\* m.rule?.id of a match without a rule
NoRule == "(undefined)"
\* property names every object inherits from Object.prototype
ObjectPrototypeKeys == {"constructor", "__proto__", "toString", "valueOf", "hasOwnProperty"}

RuleIds == {NoRule, "", "GENERIC", "R1", "R2", "constructor", "__proto__"}
Messages == {"m1", "m2"}
\* a CheckMatch, as far as the report reads it
Matches == [id : RuleIds, message : Messages]

\* bound of the match sequences handed to the report builder
MaxMatches == 3

Undefined == [t |-> "undefined", v |-> 0]
\* {}
EmptyObject == [k \in {} |-> Undefined]
Num(n) == [t |-> "number", v |-> n]
Str == [t |-> "string", v |-> 0]

\* m.rule?.id || "GENERIC": a missing or empty id is falsy
RuleKey(m) == IF m.id = NoRule \/ m.id = "" THEN "GENERIC" ELSE m.id

\* obj[key]
GetProp(obj, key) ==
    IF key \in DOMAIN obj THEN obj[key]
    ELSE IF key \in ObjectPrototypeKeys THEN [t |-> "inherited", v |-> 0]
    ELSE Undefined

\* (x || 0) + 1
OrZeroPlusOne(x) ==
    IF x.t = "number" THEN Num(x.v + 1)
    ELSE IF x.t = "undefined" THEN Num(1)
    ELSE Str

\* obj[key] = val, val a primitive
SetProp(obj, key, val) ==
    IF key = "__proto__" THEN obj ELSE (key :> val) @@ obj

\* the loop over the matches (src/server.js:187-190), from the last one back
RECURSIVE CountByRule(_)
CountByRule(ms) ==
    IF ms = <<>> THEN EmptyObject
    ELSE LET before == CountByRule(SubSeq(ms, 1, Len(ms) - 1))
             key == RuleKey(ms[Len(ms)])
         IN  SetProp(before, key, OrZeroPlusOne(GetProp(before, key)))

buildReportJSON(fileName, language, matches, textLength) ==
    [summary |-> [fileName |-> fileName, language |-> language,
                  textLength |-> textLength, totalIssues |-> Len(matches),
                  byRule |-> CountByRule(matches)],
     matches |-> matches]

NoReport == buildReportJSON("", "", <<>>, 0)

BuildReport ==
    /\ rpc = "start"
    /\ repOut' = buildReportJSON("f_cleaned.pdf", "auto", repIn, 0)
    /\ rpc' = "built"
    /\ UNCHANGED <<repIn, normVars, docxVars, reqVars, htmlVars>>

RepNext == BuildReport

\* number of matches of ms whose rule identifier is key
RECURSIVE Occurrences(_, _)
Occurrences(ms, key) ==
    IF ms = <<>> THEN 0
    ELSE (IF RuleKey(Head(ms)) = key THEN 1 ELSE 0) + Occurrences(Tail(ms), key)

RECURSIVE SumCounts(_, _)
SumCounts(obj, keys) ==
    IF keys = {} THEN 0
    ELSE LET k == CHOOSE x \in keys : TRUE
         IN  (IF obj[k].t = "number" THEN obj[k].v ELSE 0) + SumCounts(obj, keys \ {k})

KeysOf(ms) == {RuleKey(ms[i]) : i \in 1..Len(ms)}

\* C6: summary.totalIssues is the length of the match sequence, and
\* summary.byRule maps each rule identifier ("GENERIC" for a match without
\* one) to the number of matches with it, so the counts sum to totalIssues.
C6_ReportConsistent ==
    rpc # "start" =>
        LET by == repOut.summary.byRule
        IN  /\ repOut.summary.totalIssues = Len(repOut.matches)
            /\ repOut.matches = repIn
            /\ DOMAIN by = KeysOf(repIn)
            /\ \A k \in DOMAIN by : by[k] = Num(Occurrences(repIn, k))
            /\ SumCounts(by, DOMAIN by) = repOut.summary.totalIssues

\* the same, for match sequences none of whose rule identifiers is the name of
\* a property of Object.prototype
C6_OrdinaryRules ==
    (rpc # "start" /\ KeysOf(repIn) \cap ObjectPrototypeKeys = {}) =>
        LET by == repOut.summary.byRule
        IN  /\ repOut.summary.totalIssues = Len(repOut.matches)
            /\ DOMAIN by = KeysOf(repIn)
            /\ \A k \in DOMAIN by : by[k] = Num(Occurrences(repIn, k))
            /\ SumCounts(by, DOMAIN by) = repOut.summary.totalIssues

\* totalIssues alone: it is the length of the match sequence, always
C6_TotalIssues ==
    rpc # "start" => repOut.summary.totalIssues = Len(repIn)

(***************************************************************************)
(* Requests.  A file name is a sequence of characters; a file's content is *)
(* [id, fmt, raw]: which document it is, the format its bytes really have, *)
(* and the text a text extractor finds in it.                              *)
(***************************************************************************)
Requests == {1, 2}

\* limit of runLanguageTool (20000 in src/server.js:153), scaled down
ChunkLimit == 2
\* longest text handed to the checking client
MaxTextLen == 6
\* last value of Date.now() (milliseconds since the server started)
MaxClock == 1

Min(a, b) == IF a <= b THEN a ELSE b

\* String.prototype.toLowerCase, on the letters of the model
ToLowerChar(c) ==
    CASE c = "P" -> "p" [] c = "D" -> "d" [] c = "F" -> "f"
      [] c = "O" -> "o" [] c = "C" -> "c" [] c = "X" -> "x"
      [] OTHER -> c
ToLowerCase(str) == [i \in 1..Len(str) |-> ToLowerChar(str[i])]

\* String.prototype.endsWith
EndsWith(str, suffix) ==
    /\ Len(str) >= Len(suffix)
    /\ SubSeq(str, Len(str) - Len(suffix) + 1, Len(str)) = suffix

DotPdf == <<".", "p", "d", "f">>
DotDocx == <<".", "d", "o", "c", "x">>
CleanedPdf == <<"_", "c", "l", "e", "a", "n", "e", "d", ".", "p", "d", "f">>
CleanedDocx == <<"_", "c", "l", "e", "a", "n", "e", "d", ".", "d", "o", "c", "x">>
ReportZip == <<"_", "d", "o", "c", "s", "a", "f", "e", "_", "r", "e", "p", "o", "r", "t", ".", "z", "i", "p">>

\* String.prototype.includes
Includes(str, part) ==
    \E i \in 1..(Len(str) - Len(part) + 1) : SubSeq(str, i, i + Len(part) - 1) = part

\* a branch that looks for the extension anywhere in the name
FormatOfIncludes(name) ==
    IF Includes(ToLowerCase(name), DotPdf) THEN "pdf"
    ELSE IF Includes(ToLowerCase(name), DotDocx) THEN "docx"
    ELSE "unsupported"

\* the branch the routes take on originalName.toLowerCase()
FormatOf(name) ==
    IF EndsWith(ToLowerCase(name), DotPdf) THEN "pdf"
    ELSE IF EndsWith(ToLowerCase(name), DotDocx) THEN "docx"
    ELSE "unsupported"

\* originalName.replace(/\.pdf$/i, "") + "_cleaned.pdf", and the docx twin
CleanedName(name) ==
    IF FormatOf(name) = "pdf"
    THEN SubSeq(name, 1, Len(name) - Len(DotPdf)) \o CleanedPdf
    ELSE SubSeq(name, 1, Len(name) - Len(DotDocx)) \o CleanedDocx

\* originalName.replace(/\.(pdf|docx)$/i, "") + "_docsafe_report.zip"
ZipName(name) ==
    IF FormatOf(name) = "pdf"
    THEN SubSeq(name, 1, Len(name) - Len(DotPdf)) \o ReportZip
    ELSE SubSeq(name, 1, Len(name) - Len(DotDocx)) \o ReportZip

\* file.originalname.replace(/\s+/g, "_")
RECURSIVE UnderscoreSpaces(_)
UnderscoreSpaces(name) ==
    IF name = <<>> THEN <<>>
    ELSE IF Head(name) \in JsWhite
         THEN <<"_">> \o UnderscoreSpaces(Drop(name, LeadIn(name, JsWhite)))
         ELSE <<Head(name)>> \o UnderscoreSpaces(Tail(name))

\* multer's filename callback: os.tmpdir() / Date.now() + "-" + the name
TempPath(t, name) == [t |-> t, name |-> UnderscoreSpaces(name)]

NoPath == [t |-> -1, name |-> <<>>]
NoContent == [id |-> "none", fmt |-> "junk", raw |-> <<>>]
NoFile == [data |-> NoContent, by |-> 0]
NoResp == [status |-> 0, error |-> "", sent |-> "nothing", name |-> <<>>]
NoResult == [state |-> "none", matches |-> <<>>]

(***************************************************************************)
(* runLanguageTool                                                         *)
(***************************************************************************)
\* a loop that stops before a last, shorter chunk
ChunksWithoutTail(fullText) ==
    [k \in 1..(Len(fullText) \div ChunkLimit) |->
        SubSeq(fullText, (k - 1) * ChunkLimit + 1, k * ChunkLimit)]

\* the first loop: fullText.slice(i, i + limit) for i = 0, limit, 2 limit, ...
Chunks(fullText) ==
    [k \in 1..((Len(fullText) + ChunkLimit - 1) \div ChunkLimit) |->
        SubSeq(fullText, (k - 1) * ChunkLimit + 1, Min(k * ChunkLimit, Len(fullText)))]

\* a test that only sees the empty string
IsEmpty(chunk) == chunk = <<>>

\* !chunk.trim()
IsBlank(chunk) == Trim(chunk) = <<>>

\* what the checking service may answer to one request
ReplyLists ==
    {<<>>,
     <<[id |-> "R1", message |-> "m1"]>>,
     <<[id |-> NoRule, message |-> "m1"], [id |-> "R2", message |-> "m2"]>>}

\* allMatches.concat(resp.data.matches) put the wrong way round
ConcatBefore(all, ms) == ms \o all

\* allMatches = allMatches.concat(resp.data.matches)
Concat(all, ms) == all \o ms

\* a catch inside the loop that falls back to what was gathered so far
PartialOnFailure(all) == [state |-> "returned", matches |-> all]

\* axios.post rejects and nothing catches it inside runLanguageTool: the
\* call throws, allMatches is lost
ThrowOnFailure(all) == [state |-> "thrown", matches |-> <<>>]

\* runLanguageTool is entered: chunks are cut, allMatches = []
LTCall(r) ==
    /\ req[r].pc = "lt_call"
    /\ req' = [req EXCEPT ![r].pc = "lt_loop", ![r].idx = 1, ![r].allMatches = <<>>,
                          ![r].stages = @ \cup {"check"}]
    /\ UNCHANGED <<now, fs, unlinks, normVars, docxVars, repVars, htmlVars>>

\* if (!chunk.trim()) continue
LTSkip(r) ==
    /\ req[r].pc = "lt_loop"
    /\ req[r].idx <= Len(Chunks(req[r].text))
    /\ IsBlank(Chunks(req[r].text)[req[r].idx])
    /\ req' = [req EXCEPT ![r].idx = @ + 1]
    /\ UNCHANGED <<now, fs, unlinks, normVars, docxVars, repVars, htmlVars>>

\* axios.post(LT_URL, ...) for the next chunk; the function awaits the answer
LTPost(r) ==
    /\ req[r].pc = "lt_loop"
    /\ req[r].idx <= Len(Chunks(req[r].text))
    /\ ~IsBlank(Chunks(req[r].text)[req[r].idx])
    /\ req' = [req EXCEPT ![r].pc = "lt_wait",
                          ![r].posted = Append(@, Chunks(req[r].text)[req[r].idx]),
                          ![r].inflight = @ + 1,
                          ![r].stages = @ \cup {"post"}]
    /\ UNCHANGED <<now, fs, unlinks, normVars, docxVars, repVars, htmlVars>>

\* the answer arrives: if (resp?.data?.matches?.length) concat
LTReply(r) ==
    /\ req[r].pc = "lt_wait"
    /\ \E ms \in ReplyLists :
          req' = [req EXCEPT ![r].pc = "lt_loop",
                             ![r].allMatches = IF Len(ms) > 0 THEN Concat(@, ms) ELSE @,
                             ![r].replies = Append(@, ms),
                             ![r].inflight = @ - 1,
                             ![r].idx = @ + 1]
    /\ UNCHANGED <<now, fs, unlinks, normVars, docxVars, repVars, htmlVars>>

\* the request fails (network error, non-2xx status) or times out after 30 s
LTFail(r) ==
    /\ req[r].pc = "lt_wait"
    /\ req' = [req EXCEPT ![r].pc = "lt_end",
                          ![r].ltOut = ThrowOnFailure(req[r].allMatches),
                          ![r].failedAt = req[r].idx,
                          ![r].inflight = @ - 1]
    /\ UNCHANGED <<now, fs, unlinks, normVars, docxVars, repVars, htmlVars>>

\* return allMatches
LTReturn(r) ==
    /\ req[r].pc = "lt_loop"
    /\ req[r].idx > Len(Chunks(req[r].text))
    /\ req' = [req EXCEPT ![r].pc = "lt_end",
                          ![r].ltOut = [state |-> "returned", matches |-> req[r].allMatches]]
    /\ UNCHANGED <<now, fs, unlinks, normVars, docxVars, repVars, htmlVars>>

(***************************************************************************)
(* languageToolCheck (src/unnamed/part_000): the whole text in one request *)
(***************************************************************************)
\* if (!text || !text.trim()) return { matches: [] }
LTCheckBlank(r) ==
    /\ req[r].pc = "ltc_call"
    /\ IsBlank(req[r].text)
    /\ req' = [req EXCEPT ![r].pc = "lt_end",
                          ![r].ltOut = [state |-> "returned", matches |-> <<>>],
                          ![r].stages = @ \cup {"check"}]
    /\ UNCHANGED <<now, fs, unlinks, normVars, docxVars, repVars, htmlVars>>

\* fetch(LT_API_URL, ...) with the whole text
LTCheckFetch(r) ==
    /\ req[r].pc = "ltc_call"
    /\ ~IsBlank(req[r].text)
    /\ req' = [req EXCEPT ![r].pc = "ltc_wait",
                          ![r].posted = Append(@, req[r].text),
                          ![r].inflight = @ + 1,
                          ![r].stages = @ \cup {"check", "post"}]
    /\ UNCHANGED <<now, fs, unlinks, normVars, docxVars, repVars, htmlVars>>

\* return await resp.json()
LTCheckReply(r) ==
    /\ req[r].pc = "ltc_wait"
    /\ \E ms \in ReplyLists :
          req' = [req EXCEPT ![r].pc = "lt_end",
                             ![r].ltOut = [state |-> "returned", matches |-> ms],
                             ![r].replies = Append(@, ms),
                             ![r].inflight = @ - 1]
    /\ UNCHANGED <<now, fs, unlinks, normVars, docxVars, repVars, htmlVars>>

\* fetch rejects, or the body is not JSON
LTCheckFail(r) ==
    /\ req[r].pc = "ltc_wait"
    /\ req' = [req EXCEPT ![r].pc = "lt_end",
                          ![r].ltOut = [state |-> "thrown", matches |-> <<>>],
                          ![r].failedAt = 1,
                          ![r].inflight = @ - 1]
    /\ UNCHANGED <<now, fs, unlinks, normVars, docxVars, repVars, htmlVars>>

(***************************************************************************)
(* The routes of src/server.js.  POST /clean and POST /clean-v2, cut at    *)
(* their awaits; upload.single("file") runs before either.                 *)
(***************************************************************************)
EmptyFs == [p \in {} |-> NoFile]

IsHandler(r) == req[r].route \in {"clean", "clean-v2"}

\* multer's disk storage: the file part, if any, is written to TempPath
Upload(r) ==
    /\ req[r].pc = "new"
    /\ IF req[r].hasFile
       THEN LET p == TempPath(now, req[r].name)
            IN  /\ fs' = (p :> [data |-> req[r].content, by |-> r]) @@ fs
                /\ req' = [req EXCEPT ![r].pc = "handler", ![r].path = p]
       ELSE /\ req' = [req EXCEPT ![r].pc = "handler"]
            /\ UNCHANGED fs
    /\ UNCHANGED <<now, unlinks, normVars, docxVars, repVars, htmlVars>>

\* if (!req.file) return res.status(400).json({ error: "Missing file" })
RejectMissing(r) ==
    /\ req[r].pc = "handler"
    /\ ~req[r].hasFile
    /\ req' = [req EXCEPT ![r].pc = "done",
                          ![r].resp = [status |-> 400, error |-> "Missing file",
                                       sent |-> "json", name |-> <<>>]]
    /\ UNCHANGED <<now, fs, unlinks, normVars, docxVars, repVars, htmlVars>>

\* the same return placed before the try, where no finally follows it
RejectUnsupportedBeforeTry(r) ==
    /\ req[r].pc = "handler"
    /\ req[r].hasFile
    /\ FormatOf(req[r].name) = "unsupported"
    /\ req' = [req EXCEPT ![r].pc = "done",
                          ![r].resp = [status |-> 400,
                                       error |-> "Only PDF or DOCX are supported",
                                       sent |-> "json", name |-> <<>>]]
    /\ UNCHANGED <<now, fs, unlinks, normVars, docxVars, repVars, htmlVars>>

\* the else branch: return res.status(400).json(...) from inside the try
RejectUnsupported(r) ==
    /\ req[r].pc = "handler"
    /\ req[r].hasFile
    /\ FormatOf(req[r].name) = "unsupported"
    /\ req' = [req EXCEPT ![r].pc = "finally",
                          ![r].resp = [status |-> 400,
                                       error |-> "Only PDF or DOCX are supported",
                                       sent |-> "json", name |-> <<>>]]
    /\ UNCHANGED <<now, fs, unlinks, normVars, docxVars, repVars, htmlVars>>

\* await fsp.readFile(filePath): the file now at that path, or ENOENT
ReadFile(r) ==
    /\ req[r].pc = "handler"
    /\ req[r].hasFile
    /\ FormatOf(req[r].name) # "unsupported"
    /\ IF req[r].path \in DOMAIN fs
       THEN req' = [req EXCEPT ![r].pc = "sanitize", ![r].buf = fs[req[r].path],
                               ![r].stages = @ \cup {"readFile"}]
       ELSE req' = [req EXCEPT ![r].pc = "catch", ![r].stages = @ \cup {"readFile"}]
    /\ UNCHANGED <<now, fs, unlinks, normVars, docxVars, repVars, htmlVars>>

\* await processPDFBasic(inputBuf) / processDOCXBasic(inputBuf): PDFDocument.load
\* and JSZip.loadAsync throw on bytes of another format
Sanitize(r) ==
    /\ req[r].pc = "sanitize"
    /\ IF req[r].buf.data.fmt = FormatOf(req[r].name)
       THEN req' = [req EXCEPT ![r].pc = IF req[r].route = "clean" THEN "send" ELSE "extract",
                               ![r].cleaned = req[r].buf.data,
                               ![r].stages = @ \cup {"sanitize"}]
       ELSE req' = [req EXCEPT ![r].pc = "catch", ![r].stages = @ \cup {"sanitize"}]
    /\ UNCHANGED <<now, fs, unlinks, normVars, docxVars, repVars, htmlVars>>

\* /clean: res.send(outBuffer)
SendCleaned(r) ==
    /\ req[r].pc = "send"
    /\ req' = [req EXCEPT ![r].pc = "finally",
                          ![r].resp = [status |-> 200, error |-> "", sent |-> "cleaned",
                                       name |-> CleanedName(req[r].name)]]
    /\ UNCHANGED <<now, fs, unlinks, normVars, docxVars, repVars, htmlVars>>

\* /clean-v2: textForLT = await extractTextFromPDF / extractTextFromDOCX of the
\* cleaned buffer; the PDF extractor returns "" when pdfParse throws
ExtractText(r) ==
    /\ req[r].pc = "extract"
    /\ \E parsed \in BOOLEAN :
          /\ (FormatOf(req[r].name) = "docx") => parsed
          /\ req' = [req EXCEPT ![r].pc = "lt_call",
                                ![r].text = IF parsed THEN cleanTextBasic(req[r].cleaned.raw)
                                            ELSE <<>>,
                                ![r].stages = @ \cup {"extract"}]
    /\ UNCHANGED <<now, fs, unlinks, normVars, docxVars, repVars, htmlVars>>

\* buildReportJSON, buildReportHTML, the three zip.file calls, and
\* await zip.generateAsync
BuildBundle(r) ==
    /\ req[r].pc = "lt_end"
    /\ req[r].route = "clean-v2"
    /\ req[r].ltOut.state = "returned"
    /\ req' = [req EXCEPT ![r].pc = "zip",
                          ![r].report = buildReportJSON(CleanedName(req[r].name), "auto",
                                                        req[r].ltOut.matches, Len(req[r].text)),
                          ![r].stages = @ \cup {"report", "bundle"}]
    /\ UNCHANGED <<now, fs, unlinks, normVars, docxVars, repVars, htmlVars>>

\* res.send(zipBuf)
SendZip(r) ==
    /\ req[r].pc = "zip"
    /\ req' = [req EXCEPT ![r].pc = "finally",
                          ![r].resp = [status |-> 200, error |-> "", sent |-> "zip",
                                       name |-> ZipName(req[r].name)]]
    /\ UNCHANGED <<now, fs, unlinks, normVars, docxVars, repVars, htmlVars>>

\* catch (e): res.status(500).json({ error: "Processing failed" }), with
\* " (V2)" in /clean-v2
Catch(r) ==
    /\ IsHandler(r)
    /\ \/ req[r].pc = "catch"
       \/ req[r].pc = "lt_end" /\ req[r].ltOut.state = "thrown"
    /\ req' = [req EXCEPT ![r].pc = "finally",
                          ![r].resp = [status |-> 500,
                                       error |-> IF req[r].route = "clean"
                                                 THEN "Processing failed"
                                                 ELSE "Processing failed (V2)",
                                       sent |-> "json", name |-> <<>>]]
    /\ UNCHANGED <<now, fs, unlinks, normVars, docxVars, repVars, htmlVars>>

\* finally: fs.existsSync(filePath) && fs.unlink(filePath, () => {})
Finally(r) ==
    /\ req[r].pc = "finally"
    /\ IF req[r].path \in DOMAIN fs
       THEN /\ unlinks' = unlinks \cup {req[r].path}
            /\ req' = [req EXCEPT ![r].pc = "done", ![r].cleanup = "unlink"]
       ELSE /\ req' = [req EXCEPT ![r].pc = "done", ![r].cleanup = "absent"]
            /\ UNCHANGED unlinks
    /\ UNCHANGED <<now, fs, normVars, docxVars, repVars, htmlVars>>

\* the unlink is carried out; its callback ignores ENOENT
UnlinkDone(p) ==
    /\ p \in unlinks
    /\ unlinks' = unlinks \ {p}
    /\ fs' = [q \in DOMAIN fs \ {p} |-> fs[q]]
    /\ UNCHANGED <<req, now, normVars, docxVars, repVars, htmlVars>>

\* a millisecond passes (Date.now() is read by the uploads only)
Tick ==
    /\ now < MaxClock
    /\ \E r \in Requests : req[r].pc = "new"
    /\ now' = now + 1
    /\ UNCHANGED <<req, fs, unlinks, normVars, docxVars, repVars, htmlVars>>

(***************************************************************************)
(* Initial states                                                          *)
(***************************************************************************)
NewRequest(route, pc, hasFile, name, content, text) ==
    [route |-> route, pc |-> pc, hasFile |-> hasFile, name |-> name,
     content |-> content, path |-> NoPath, buf |-> NoFile, cleaned |-> NoContent,
     text |-> text, idx |-> 0, allMatches |-> <<>>, ltOut |-> NoResult,
     posted |-> <<>>, replies |-> <<>>, inflight |-> 0, failedAt |-> 0,
     report |-> NoReport, resp |-> NoResp, stages |-> {}, cleanup |-> "none"]

\* a request that is never made
Off == NewRequest("none", "off", FALSE, <<>>, NoContent, <<>>)

\* texts handed to the checking client when it is called on its own
LTTexts == SeqsUpTo({"a", SP, NL}, MaxTextLen)

\* a request without a file part
NoUpload == [hasFile |-> FALSE, name |-> <<>>, content |-> NoContent]

\* what a request may carry: no file part, or a file of some name and content
Uploads(names, contents) ==
    {NoUpload} \cup [hasFile : {TRUE}, name : names, content : contents]

\* file names and contents of a single request
V2Names ==
    {<<"r", ".", "p", "d", "f">>, <<"r", ".", "P", "D", "F">>,
     <<"r", ".", "d", "o", "c", "x">>, <<"r", ".", "t", "x", "t">>,
     <<"r", ".", "p", "d", "f", ".", "t", "x", "t">>, <<"p", "d", "f">>}
V2Raws ==
    {<<>>, <<"a", SP, SP, "a">>, <<"a", "a", "a", "a", "a">>, <<"a", ",", NL, "b">>}
V2Contents == [id : {"A"}, fmt : {"pdf", "docx", "junk"}, raw : V2Raws]

\* what two concurrent requests may carry: the first "a b.pdf", the second
\* "a_b.pdf" (another document, or a file that is no PDF) or a file of another
\* extension; either may come without a file
ReqUploads(r) ==
    IF r = 1
    THEN {NoUpload,
          [hasFile |-> TRUE, name |-> <<"a", SP, "b", ".", "p", "d", "f">>,
           content |-> [id |-> "A", fmt |-> "pdf", raw |-> <<"a", ",", NL, "b">>]]}
    ELSE {NoUpload,
          [hasFile |-> TRUE, name |-> <<"a", "_", "b", ".", "p", "d", "f">>,
           content |-> [id |-> "B", fmt |-> "pdf", raw |-> <<>>]],
          [hasFile |-> TRUE, name |-> <<"a", "_", "b", ".", "p", "d", "f">>,
           content |-> [id |-> "J", fmt |-> "junk", raw |-> <<>>]],
          [hasFile |-> TRUE, name |-> <<"c", ".", "t", "x", "t">>,
           content |-> [id |-> "J", fmt |-> "junk", raw |-> <<>>]]}

(***************************************************************************)
(* buildReportHTML.  The rendering is a sequence of pieces, each the       *)
(* template's own markup or the text an interpolation ${...} put there;    *)
(* a piece remembers which field its text came from.                       *)
(***************************************************************************)
\* a property that is not there (m.rule, m.message, req.body.lt_language ...)
Absent == <<"(undefined)">>
LT == "<"
Auto == <<"a", "u", "t", "o">>
Dash == <<"-">>
CommaSpace == <<",", SP>>

\* rows of the rendered table
MaxRows == 2
\* longest replacements array of a match
MaxReplacements == 4
\* .slice(0, 3)
ShownReplacements == 3

\* x || dflt, for x a string or undefined
OrElse(x, dflt) == IF x = Absent \/ x = <<>> THEN dflt ELSE x

\* String(n) for a non-negative integer
DecimalDigits == <<"0", "1", "2", "3", "4", "5", "6", "7", "8", "9">>
RECURSIVE NumberToString(_)
NumberToString(n) ==
    IF n < 10 THEN <<DecimalDigits[n + 1]>>
    ELSE NumberToString(n \div 10) \o <<DecimalDigits[(n % 10) + 1]>>

\* .replace(/</g, "&lt;")
RECURSIVE EscapeLt(_)
EscapeLt(str) ==
    IF str = <<>> THEN <<>>
    ELSE (IF Head(str) = LT THEN <<"&", "l", "t", ";">> ELSE <<Head(str)>>)
         \o EscapeLt(Tail(str))

\* Array.prototype.join(", ")
RECURSIVE Join(_)
Join(values) ==
    IF values = <<>> THEN <<>>
    ELSE IF Len(values) = 1 THEN values[1]
    ELSE values[1] \o CommaSpace \o Join(Tail(values))

\* (m.replacements || []).slice(0, 3).map(r => r.value).join(", ")
Repl(m) ==
    Join(SubSeq(m.replacements, 1, Min(ShownReplacements, Len(m.replacements))))

Template(markup) == [from |-> "template", text |-> <<markup>>]
Field(name, text) == [from |-> name, text |-> text]

\* the callback of matches.map (src/server.js:197-207): one <tr>
Row(m, idx) ==
    << Template("<tr><td>"), Field("index", NumberToString(idx + 1)),
       Template("</td><td>"), Field("ruleId", OrElse(m.id, <<>>)),
       Template("</td><td>"), Field("message", EscapeLt(OrElse(m.message, <<>>))),
       Template("</td><td>"), Field("suggestions", EscapeLt(OrElse(Repl(m), Dash))),
       Template("</td><td>"), Field("context", EscapeLt(OrElse(m.context, <<>>))),
       Template("</td></tr>") >>

\* matches.map(...).join("")
RECURSIVE Rows(_, _)
Rows(matches, idx) ==
    IF idx >= Len(matches) THEN <<>>
    ELSE Row(matches[idx + 1], idx) \o Rows(matches, idx + 1)

buildReportHTML(report) ==
    LET summary == report.summary
        rows == Rows(report.matches, 0)
    IN  << Template("<!doctype html>...<b>Fichier:</b> "),
           Field("fileName", summary.fileName),
           Template("</div><div><b>Langue:</b> "),
           Field("language", summary.language),
           Template("</div><div><b>Longueur texte:</b> "),
           Field("textLength", NumberToString(summary.textLength)),
           Template("</div><div><b>Total issues:</b> "),
           Field("totalIssues", NumberToString(summary.totalIssues)),
           Template("</div></div><table><thead>...</thead><tbody>") >>
        \o (IF rows # <<>> THEN rows
            ELSE << Template("<tr><td colspan=5>Aucune suggestion.</td></tr>") >>)
        \o << Template("</tbody></table></div></div></body></html>") >>

\* what buildReportHTML reads of the object buildReportJSON returns
\* (summary.byRule is not rendered)
ReportForRendering(fileName, language, matches, textLength) ==
    [summary |-> [fileName |-> fileName, language |-> language,
                  textLength |-> textLength, totalIssues |-> Len(matches)],
     matches |-> matches]

NoRendering == ReportForRendering(<<>>, <<>>, <<>>, 0)
NoBundle == [originalName |-> <<>>, lt_language |-> Absent, textLength |-> 0,
             matches |-> <<>>]

\* /clean-v2 after runLanguageTool has returned: lang, cleanedName and the
\* call of buildReportJSON
BuildReportJSON ==
    /\ hpc = "matches"
    /\ reportJSON' = ReportForRendering(CleanedName(htmlIn.originalName),
                                        OrElse(htmlIn.lt_language, Auto),
                                        htmlIn.matches, htmlIn.textLength)
    /\ hpc' = "report"
    /\ UNCHANGED <<htmlIn, reportHTML, normVars, docxVars, repVars, reqVars>>

\* const reportHTML = buildReportHTML(reportJSON)
BuildReportHTML ==
    /\ hpc = "report"
    /\ reportHTML' = buildReportHTML(reportJSON)
    /\ hpc' = "rendered"
    /\ UNCHANGED <<htmlIn, reportJSON, normVars, docxVars, repVars, reqVars>>

HtmlNext == BuildReportJSON \/ BuildReportHTML

\* the matches the checking service may have answered, as far as the
\* rendering reads them: nothing set, plain text, and text with markup
MatchTexts ==
    {[id |-> Absent, message |-> Absent, context |-> Absent],
     [id |-> <<"R">>, message |-> <<"m">>, context |-> <<"c">>],
     [id |-> <<LT, "R">>, message |-> <<"m", LT>>, context |-> <<LT, "c", LT>>]}
ReplacementValues == {<<"a">>, <<LT, "b">>}
HtmlMatches ==
    {[id |-> t.id, message |-> t.message, context |-> t.context, replacements |-> rs] :
        t \in MatchTexts, rs \in SeqsUpTo(ReplacementValues, MaxReplacements)}
\* uploads /clean-v2 accepts, and values of the lt_language form field
HtmlNames == {<<"r", ".", "p", "d", "f">>, <<LT, "i", ">", ".", "d", "o", "c", "x">>}
HtmlLanguages == {Absent, <<"f", "r">>, <<LT, "b", ">">>}

(***************************************************************************)
(* Specifications                                                          *)
(***************************************************************************)
LTStep(r) ==
    \/ LTCall(r) \/ LTSkip(r) \/ LTPost(r) \/ LTReply(r) \/ LTFail(r) \/ LTReturn(r)

LTCheckStep(r) ==
    \/ LTCheckBlank(r) \/ LTCheckFetch(r) \/ LTCheckReply(r) \/ LTCheckFail(r)

HandlerStep(r) ==
    \/ Upload(r) \/ RejectMissing(r) \/ RejectUnsupported(r) \/ ReadFile(r)
    \/ Sanitize(r) \/ SendCleaned(r) \/ ExtractText(r) \/ BuildBundle(r)
    \/ SendZip(r) \/ Catch(r) \/ Finally(r)

LTNext == \E r \in Requests : LTStep(r) \/ LTCheckStep(r)

ReqNext ==
    \/ \E r \in Requests : HandlerStep(r) \/ LTStep(r)
    \/ \E p \in unlinks : UnlinkDone(p)
    \/ Tick

\* a text to normalize
InitNorm ==
    /\ input \in NormInputs
    /\ once = <<>> /\ twice = <<>> /\ npc = "start"
    /\ docxIn = NoArchive /\ docxOut = NoArchive /\ dpc = "idle"
    /\ repIn = <<>> /\ repOut = NoReport /\ rpc = "idle"
    /\ req = [r \in Requests |-> Off] /\ now = 0 /\ fs = EmptyFs /\ unlinks = {}
    /\ htmlIn = NoBundle /\ reportJSON = NoRendering /\ reportHTML = <<>> /\ hpc = "idle"

\* an uploaded buffer to sanitize
InitDocx ==
    /\ docxIn \in {z \in DocxInputs : WellFormedInput(z)}
    /\ docxOut = NoArchive /\ dpc = "start"
    /\ input = <<>> /\ once = <<>> /\ twice = <<>> /\ npc = "idle"
    /\ repIn = <<>> /\ repOut = NoReport /\ rpc = "idle"
    /\ req = [r \in Requests |-> Off] /\ now = 0 /\ fs = EmptyFs /\ unlinks = {}
    /\ htmlIn = NoBundle /\ reportJSON = NoRendering /\ reportHTML = <<>> /\ hpc = "idle"

\* a match sequence to report
InitReport ==
    /\ repIn \in SeqsUpTo(Matches, MaxMatches)
    /\ repOut = NoReport /\ rpc = "start"
    /\ input = <<>> /\ once = <<>> /\ twice = <<>> /\ npc = "idle"
    /\ docxIn = NoArchive /\ docxOut = NoArchive /\ dpc = "idle"
    /\ req = [r \in Requests |-> Off] /\ now = 0 /\ fs = EmptyFs /\ unlinks = {}
    /\ htmlIn = NoBundle /\ reportJSON = NoRendering /\ reportHTML = <<>> /\ hpc = "idle"

\* one call of runLanguageTool or of languageToolCheck
InitLT ==
    /\ \E text \in LTTexts,
          entry \in {[fn |-> "runLanguageTool", pc |-> "lt_call"],
                     [fn |-> "languageToolCheck", pc |-> "ltc_call"]} :
          req = [r \in Requests |->
                    IF r = 1 THEN NewRequest(entry.fn, entry.pc, FALSE, <<>>, NoContent, text)
                    ELSE Off]
    /\ now = 0 /\ fs = EmptyFs /\ unlinks = {}
    /\ input = <<>> /\ once = <<>> /\ twice = <<>> /\ npc = "idle"
    /\ docxIn = NoArchive /\ docxOut = NoArchive /\ dpc = "idle"
    /\ repIn = <<>> /\ repOut = NoReport /\ rpc = "idle"
    /\ htmlIn = NoBundle /\ reportJSON = NoRendering /\ reportHTML = <<>> /\ hpc = "idle"

\* one request
InitV2 ==
    /\ \E route \in {"clean", "clean-v2"}, upload \in Uploads(V2Names, V2Contents) :
          req = [r \in Requests |->
                    IF r = 1 THEN NewRequest(route, "new", upload.hasFile, upload.name,
                                             upload.content, <<>>)
                    ELSE Off]
    /\ now = 0 /\ fs = EmptyFs /\ unlinks = {}
    /\ input = <<>> /\ once = <<>> /\ twice = <<>> /\ npc = "idle"
    /\ docxIn = NoArchive /\ docxOut = NoArchive /\ dpc = "idle"
    /\ repIn = <<>> /\ repOut = NoReport /\ rpc = "idle"
    /\ htmlIn = NoBundle /\ reportJSON = NoRendering /\ reportHTML = <<>> /\ hpc = "idle"

\* two requests
InitReq ==
    /\ \E routes \in [Requests -> {"clean", "clean-v2"}],
          uploads \in {u \in [Requests -> UNION {ReqUploads(r) : r \in Requests}] :
                          \A r \in Requests : u[r] \in ReqUploads(r)} :
          req = [r \in Requests |->
                    NewRequest(routes[r], "new", uploads[r].hasFile, uploads[r].name,
                               uploads[r].content, <<>>)]
    /\ now = 0 /\ fs = EmptyFs /\ unlinks = {}
    /\ input = <<>> /\ once = <<>> /\ twice = <<>> /\ npc = "idle"
    /\ docxIn = NoArchive /\ docxOut = NoArchive /\ dpc = "idle"
    /\ repIn = <<>> /\ repOut = NoReport /\ rpc = "idle"
    /\ htmlIn = NoBundle /\ reportJSON = NoRendering /\ reportHTML = <<>> /\ hpc = "idle"

\* the report of one accepted /clean-v2 request, built and rendered
InitHtml ==
    /\ \E name \in HtmlNames, lang \in HtmlLanguages, len \in {0, 12},
          ms \in SeqsUpTo(HtmlMatches, MaxRows) :
          htmlIn = [originalName |-> name, lt_language |-> lang, textLength |-> len,
                    matches |-> ms]
    /\ reportJSON = NoRendering /\ reportHTML = <<>> /\ hpc = "matches"
    /\ input = <<>> /\ once = <<>> /\ twice = <<>> /\ npc = "idle"
    /\ docxIn = NoArchive /\ docxOut = NoArchive /\ dpc = "idle"
    /\ repIn = <<>> /\ repOut = NoReport /\ rpc = "idle"
    /\ req = [r \in Requests |-> Off] /\ now = 0 /\ fs = EmptyFs /\ unlinks = {}

\* the normalizer applied to a text and then to its own result
SpecNorm == InitNorm /\ [][NormNext]_vars

\* one call of processDOCXBasic
SpecDocx == InitDocx /\ [][DocxNext]_vars

\* one call of buildReportJSON
SpecReport == InitReport /\ [][RepNext]_vars

\* one call of the checking client, on any text
SpecLT == InitLT /\ [][LTNext]_vars

\* one report, from the matches to its rendering
SpecHtml == InitHtml /\ [][HtmlNext]_vars

\* one request to /clean or /clean-v2
SpecV2 == InitV2 /\ [][ReqNext]_vars

\* two requests at the same time
SpecReq == InitReq /\ [][ReqNext]_vars

\* the process does not stop while a continuation is ready, an answer or a
\* timeout of the checking service is due, or an unlink is to be carried out
\* (every request takes finitely many steps, so none can be starved for ever)
Fairness == WF_vars(ReqNext)

SpecReqFair == SpecReq /\ Fairness

(***************************************************************************)
(* Properties of the checking client and of the routes                     *)
(***************************************************************************)
RECURSIVE Flatten(_)
Flatten(lists) == IF lists = <<>> THEN <<>> ELSE Head(lists) \o Flatten(Tail(lists))

IsPrefix(a, b) == Len(a) <= Len(b) /\ SubSeq(b, 1, Len(a)) = a

NonBlank(chunks) == SelectSeq(chunks, LAMBDA c : ~IsBlank(c))

Returned(r) == req[r].pc = "lt_end" /\ req[r].ltOut.state = "returned"

\* C2: if the request to the checking service fails or times out for any chunk,
\* runLanguageTool returns no matches (it throws, whatever it had gathered),
\* requests no further chunk, and /clean-v2 answers "Processing failed (V2)"
\* with status 500; neither the archive nor the cleaned document is sent.
C2_FailureIsAtomic ==
    \A r \in Requests :
        (req[r].route = "clean-v2" /\ req[r].failedAt > 0) =>
            /\ req[r].ltOut = [state |-> "thrown", matches |-> <<>>]
            /\ req[r].inflight = 0
            /\ req[r].posted[Len(req[r].posted)] = Chunks(req[r].text)[req[r].failedAt]
            /\ Len(req[r].posted) = Len(req[r].replies) + 1
            /\ req[r].report = NoReport
            /\ "report" \notin req[r].stages /\ "bundle" \notin req[r].stages
            /\ req[r].resp.sent \notin {"zip", "cleaned"}
            /\ req[r].pc \in {"lt_end", "finally", "done"}
            /\ req[r].pc \in {"finally", "done"} =>
                  /\ req[r].resp.status = 500
                  /\ req[r].resp.error = "Processing failed (V2)"

\* the request for the middle one of three chunks failed after the first had
\* brought matches, and the request has ended
C2_Witness ==
    /\ req[1].route = "clean-v2"
    /\ Len(Chunks(req[1].text)) = 3
    /\ req[1].failedAt = 2
    /\ req[1].allMatches # <<>>
    /\ req[1].pc = "done"
    /\ req[1].resp.status = 500

\* a text with no character other than white space (the empty text included)
WhiteSpaceOnly(text) == \A i \in 1..Len(text) : text[i] \in {SP, TAB, NL, CR}

\* C3: for a text that is empty or white space only, of any length, the
\* checking client (runLanguageTool, languageToolCheck) returns an empty match
\* sequence and sends no request to the checking endpoint.
C3_BlankTextNoRequest ==
    \A r \in Requests :
        (req[r].route \in {"runLanguageTool", "languageToolCheck"} /\ WhiteSpaceOnly(req[r].text)) =>
            /\ req[r].posted = <<>>
            /\ req[r].inflight = 0
            /\ "post" \notin req[r].stages
            /\ req[r].pc \in {"lt_call", "ltc_call", "lt_loop", "lt_end"}
            /\ req[r].pc = "lt_end" => req[r].ltOut = [state |-> "returned", matches |-> <<>>]

\* runLanguageTool has returned for a white-space text longer than two chunks
C3_Witness ==
    /\ req[1].route = "runLanguageTool"
    /\ Len(req[1].text) > 2 * ChunkLimit
    /\ WhiteSpaceOnly(req[1].text)
    /\ NL \in {req[1].text[i] : i \in 1..Len(req[1].text)}
    /\ Returned(1)
    /\ req[1].idx = Len(Chunks(req[1].text)) + 1

\* C4 as stated: a text shorter than L is sent as exactly one chunk, a text of
\* length k * L as exactly k chunks, every chunk sent is at most L long and
\* every one but the last exactly L.
C4_AsStated ==
    \A r \in Requests :
        (req[r].route = "runLanguageTool" /\ Returned(r)) =>
            /\ Len(req[r].text) < ChunkLimit => Len(req[r].posted) = 1
            /\ \A k \in 1..MaxTextLen :
                  Len(req[r].text) = k * ChunkLimit => Len(req[r].posted) = k
            /\ \A i \in 1..Len(req[r].posted) :
                  /\ Len(req[r].posted[i]) <= ChunkLimit
                  /\ i < Len(req[r].posted) => Len(req[r].posted[i]) = ChunkLimit

\* C4, amended: the text is cut into consecutive chunks that give the text back
\* when joined, none empty, each at most L long and each but the last exactly
\* L; the chunks sent are those that are not white space only, in order (all of
\* them once the call has returned).  So a text shorter than L is sent as one
\* chunk unless it is blank (then none is sent), and a text of length k * L as
\* k chunks unless some of its chunks are blank.
C4_Chunking ==
    \A r \in Requests :
        req[r].route = "runLanguageTool" =>
            LET cs == Chunks(req[r].text)
            IN  /\ Flatten(cs) = req[r].text
                /\ \A i \in 1..Len(cs) :
                      /\ 1 <= Len(cs[i]) /\ Len(cs[i]) <= ChunkLimit
                      /\ i < Len(cs) => Len(cs[i]) = ChunkLimit
                /\ IsPrefix(req[r].posted, NonBlank(cs))
                /\ Returned(r) => req[r].posted = NonBlank(cs)
                /\ (Returned(r) /\ Len(req[r].text) < ChunkLimit) =>
                      Len(req[r].posted) = IF IsBlank(req[r].text) THEN 0 ELSE 1
                /\ \A k \in 1..MaxTextLen :
                      (Returned(r) /\ Len(req[r].text) = k * ChunkLimit) =>
                          /\ Len(cs) = k
                          /\ (NonBlank(cs) = cs) => Len(req[r].posted) = k

\* a text of three full chunks, the middle one blank, has been checked: two
\* chunks were sent
C4_Witness ==
    /\ req[1].route = "runLanguageTool"
    /\ Returned(1)
    /\ Len(req[1].text) = 3 * ChunkLimit
    /\ Len(req[1].posted) = 2
    /\ IsBlank(Chunks(req[1].text)[2])

\* C5: chunks are checked one at a time in text order: at most one request is
\* outstanding, the request for the next chunk is issued only after the answer
\* to the one before has come, and on success the result is the concatenation
\* of the per-chunk match lists in chunk order, each list as it was received.
C5_Sequential ==
    \A r \in Requests :
        req[r].route = "runLanguageTool" =>
            /\ req[r].inflight \in {0, 1}
            /\ req[r].inflight = 1 <=> req[r].pc = "lt_wait"
            /\ Len(req[r].posted) =
                  Len(req[r].replies) + req[r].inflight + (IF req[r].failedAt > 0 THEN 1 ELSE 0)
            /\ IsPrefix(req[r].posted, NonBlank(Chunks(req[r].text)))
            /\ req[r].allMatches = Flatten(req[r].replies)
            /\ Returned(r) => req[r].ltOut.matches = Flatten(req[r].replies)

\* three chunks were answered with one match, none, and two matches
C5_Witness ==
    /\ req[1].route = "runLanguageTool"
    /\ Returned(1)
    /\ Len(req[1].replies) = 3
    /\ Len(req[1].replies[1]) = 1 /\ Len(req[1].replies[2]) = 0 /\ Len(req[1].replies[3]) = 2
    /\ Len(req[1].ltOut.matches) = 3
    /\ req[1].ltOut.matches[1].message = "m1" /\ req[1].ltOut.matches[3].message = "m2"

\* C8: concurrent requests are independent: no request reads, overwrites or
\* deletes the temporary file of another, and each request ends as it would
\* have ended alone (a readable file of a supported format whose check did not
\* fail is answered with status 200).
C8_Independent ==
    \A r \in Requests :
        /\ req[r].buf # NoFile => req[r].buf = [data |-> req[r].content, by |-> r]
        /\ (req[r].hasFile /\ req[r].pc \notin {"new", "done"}) =>
              /\ req[r].path \in DOMAIN fs
              /\ fs[req[r].path] = [data |-> req[r].content, by |-> r]
        /\ (req[r].pc = "done" /\ req[r].hasFile
                /\ req[r].content.fmt = FormatOf(req[r].name) /\ req[r].failedAt = 0) =>
              req[r].resp.status = 200

\* the same for requests whose temporary paths differ
C8_DistinctPaths ==
    (\A r1, r2 \in Requests :
        (r1 # r2 /\ req[r1].hasFile /\ req[r2].hasFile) =>
            TempPath(0, req[r1].name) # TempPath(0, req[r2].name))
    => C8_Independent

Uploaded(r) == req[r].hasFile /\ req[r].pc = "done"

\* C9: on every exit path of /clean and /clean-v2 of a request that uploaded a
\* file the finally block has run: the unlink of its temporary file was asked
\* for, or the file was already gone; and once the request has completed, its
\* temporary file eventually no longer exists.
C9_Cleanup ==
    /\ [](\A r \in Requests : Uploaded(r) =>
              \/ req[r].cleanup = "unlink"
              \/ req[r].cleanup = "absent" /\ \E q \in Requests : q # r /\ req[q].path = req[r].path)
    /\ \A r \in Requests : Uploaded(r) ~> (req[r].path \notin DOMAIN fs)

\* two exit paths (a failed check, an unsupported format), each with its unlink
\* asked for and carried out
C9_Witness ==
    /\ \A r \in Requests : Uploaded(r) /\ req[r].cleanup = "unlink"
    /\ req[1].resp.status = 500 /\ req[1].failedAt > 0
    /\ req[2].resp.status = 400
    /\ DOMAIN fs = {} /\ unlinks = {}

\* the part of a name after its last dot, in lower case ("" without a dot)
RECURSIVE AfterLastDot(_)
AfterLastDot(name) ==
    IF name = <<>> THEN <<>>
    ELSE IF "." \in {name[i] : i \in 1..Len(name)}
         THEN LET i == CHOOSE i \in 1..Len(name) :
                          name[i] = "." /\ \A j \in (i + 1)..Len(name) : name[j] # "."
              IN  ToLowerCase(SubSeq(name, i + 1, Len(name)))
         ELSE <<>>

NoInput(r) == ~req[r].hasFile
BadExtension(r) ==
    /\ req[r].hasFile
    /\ AfterLastDot(req[r].name) \notin {<<"p", "d", "f">>, <<"d", "o", "c", "x">>}

\* C10: a request without a file, or with a file whose extension is neither
\* pdf nor docx (whatever the case), is answered with an invalid-input error
\* that tells the two kinds apart and is not the processing-failed answer, and
\* no stage of the pipeline ever runs for it.
C10_InvalidRejected ==
    \A r \in Requests :
        IsHandler(r) =>
            /\ (NoInput(r) \/ BadExtension(r)) =>
                  /\ req[r].stages = {}
                  /\ req[r].resp.sent \in {"nothing", "json"}
                  /\ req[r].pc \in {"new", "handler", "finally", "done"}
            /\ req[r].pc = "done" =>
                  /\ NoInput(r) <=>
                        (req[r].resp.status = 400 /\ req[r].resp.error = "Missing file")
                  /\ BadExtension(r) <=>
                        (req[r].resp.status = 400
                            /\ req[r].resp.error = "Only PDF or DOCX are supported")
                  /\ req[r].resp.status = 500 =>
                        req[r].resp.error \in {"Processing failed", "Processing failed (V2)"}

\* a file named r.pdf.txt has been rejected, nothing was run
C10_Witness ==
    /\ req[1].pc = "done"
    /\ req[1].name = <<"r", ".", "p", "d", "f", ".", "t", "x", "t">>
    /\ req[1].resp.status = 400
    /\ req[1].stages = {}
    /\ req[1].cleanup = "unlink"

(***************************************************************************)
(* Properties of the rendering                                             *)
(***************************************************************************)
\* the piece's text has a '<' in it
HasRawLt(piece) == \E i \in 1..Len(piece.text) : piece.text[i] = LT

\* the pieces of the rendering that came from one of the given fields
PiecesFrom(fields) ==
    {i \in 1..Len(reportHTML) : reportHTML[i].from \in fields}

\* C11: in the rendering buildReportHTML produces, no text that came from the
\* file name, the language code, a rule id, a message, the suggested
\* replacements or a context snippet contains a raw '<' character.
C11_AllFieldsEscaped ==
    hpc = "rendered" =>
        \A i \in PiecesFrom({"fileName", "language", "ruleId", "message",
                             "suggestions", "context"}) :
            ~HasRawLt(reportHTML[i])

\* the three columns the code does escape: message, suggestions and context
\* never carry a raw '<', and neither do the numbers
C11_EscapedColumns ==
    hpc = "rendered" =>
        \A i \in PiecesFrom({"message", "suggestions", "context", "index",
                             "textLength", "totalIssues"}) :
            ~HasRawLt(reportHTML[i])

\* a report whose only markup is in the name of the uploaded file: the
\* rendering shows the name as it was sent
C11_FileNameRaw ==
    /\ hpc = "rendered"
    /\ htmlIn.matches = <<>>
    /\ htmlIn.lt_language = Absent
    /\ \E i \in PiecesFrom({"fileName"}) : HasRawLt(reportHTML[i])

====
